---- MODULE Spec2Model ----
(***************************************************************************)
(* Model of chatbot.py: a password-gated Streamlit chat front-end that     *)
(* forwards the conversation to an OpenAI-compatible endpoint and keeps    *)
(* the transcript of the session in sessions/<session_id>.json.            *)
(*                                                                         *)
(* One action is one run of the script (Streamlit re-executes the whole    *)
(* module on every interaction); a run that ends in st.rerun() includes    *)
(* the rerun it schedules.                                                 *)
(***************************************************************************)
EXTENDS Integers, Sequences, FiniteSets, TLC

VARIABLES
    environ,          \* os.environ after load_dotenv(): the four settings
    session_state,    \* st.session_state: a dict, keys appear when first set
    files,            \* sessions/: session id -> text of <id>.json
    page,             \* what the last run rendered
    error_shown,      \* the st.error message of the last run, None if none
    password,         \* value of the password text_input in the last run
    user_input,       \* value of st.chat_input in the last run
    response,         \* what the endpoint answered to the last request
    messages_payload, \* the message list of the last request, <<>> if none
    write_io,         \* how the last write of a history file went
    read_io,          \* how the last read of a history file went
    loaded,           \* the last value returned by load_history
    step,             \* the handler that ran last
    turns,            \* requests sent for the current transcript
    tail              \* of these, the turns since the first that was not nominal

vars == <<environ, session_state, files, page, error_shown, password,
          user_input, response, messages_payload, write_io, read_io, loaded,
          step, turns, tail>>

----------------------------------------------------------------------------
(* Bounds of the model *)

MaxTurns == 26
MaxTail == 1
MaxLen == 52

(* The limit of save_history *)
HISTORY_LIMIT == 50

----------------------------------------------------------------------------
(* Python values: None and str (a sequence of characters) *)

None == <<"None">>
Str(s) == <<"str", s>>
Chars(v) == v[2]

\* bool(v) for None and str
Truthy(v) == v # None /\ Chars(v) # <<>>

\* all([...])
py_all(vs) == \A i \in 1..Len(vs) : Truthy(vs[i])

IsSpace(c) == c \in {" ", "\t", "\n"}

RECURSIVE lstrip(_)
lstrip(s) == IF s # <<>> /\ IsSpace(Head(s)) THEN lstrip(Tail(s)) ELSE s

RECURSIVE rstrip(_)
rstrip(s) ==
    IF s # <<>> /\ IsSpace(s[Len(s)]) THEN rstrip(SubSeq(s, 1, Len(s) - 1))
    ELSE s

\* str.strip()
strip(v) == Str(rstrip(lstrip(Chars(v))))

\* dict: key in d, d[key] = value
Has(d, k) == k \in DOMAIN d
Put(d, k, v) == (k :> v) @@ d

Msg(role, content) == [role |-> role, content |-> content]

\* a variant that keeps the oldest entries: seq[:n]
PySliceLast_First(seq, n) ==
    IF Len(seq) > n THEN SubSeq(seq, 1, n) ELSE seq

\* seq[-n:]
PySliceLast(seq, n) ==
    IF Len(seq) > n THEN SubSeq(seq, Len(seq) - n + 1, Len(seq)) ELSE seq

----------------------------------------------------------------------------
(* Configuration *)

getenv(name) == environ[name]

LM_STUDIO_URL == getenv("LM_STUDIO_URL")
MODEL_NAME == getenv("MODEL_NAME")
SESSION_SECRET == getenv("SESSION_SECRET")
AUTH_PASSWORD == getenv("AUTH_PASSWORD")

\* a variant of the check that leaves the password out
ConfigOk_NoPassword ==
    py_all(<<LM_STUDIO_URL, MODEL_NAME, SESSION_SECRET>>)

\* the script goes on past line 19
ConfigOk ==
    py_all(<<LM_STUDIO_URL, MODEL_NAME, SESSION_SECRET, AUTH_PASSWORD>>)

SYSTEM_PROMPT == Str(<<"S", "Y", "S">>)

----------------------------------------------------------------------------
(* JSON text of a history file: a sequence of tokens *)

TokOpen == <<"[">>
TokClose == <<"]">>
TokObject(m) == <<"{", m.role, m.content>>

\* json.dump(history, f)
json_dump(history) ==
    <<TokOpen>> \o [i \in 1..Len(history) |-> TokObject(history[i])]
                \o <<TokClose>>

WellFormed(text) ==
    /\ Len(text) >= 2
    /\ text[1] = TokOpen
    /\ text[Len(text)] = TokClose
    /\ \A i \in 2..(Len(text) - 1) : Len(text[i]) = 3 /\ text[i][1] = "{"

\* json.load(f): <<"ok", value>> or <<"JSONDecodeError">>
json_load(text) ==
    IF WellFormed(text)
    THEN <<"ok", [i \in 1..(Len(text) - 2) |->
                     Msg(text[i + 1][2], text[i + 1][3])]>>
    ELSE <<"JSONDecodeError">>

\* what a write that fails half-way leaves behind
PartialText(text) == SubSeq(text, 1, Len(text) \div 2)

WriteOutcomes == {"ok", "open_failed", "write_failed"}
ReadOutcomes == {"ok", "read_failed"}

----------------------------------------------------------------------------
(* Session identity and transcript store *)

\* hashlib.sha256(f"{raw_id}{SESSION_SECRET}").hexdigest()[:16]
sha256_16(raw_id, secret) == <<"sha256", raw_id, secret>>

RawIds == {"uuid-a", "uuid-b"}

\* get_session_id(): <<session_state afterwards, id returned>>
get_session_id(ss, raw_id) ==
    LET ss1 == IF ~Has(ss, "session_id")
               THEN Put(ss, "session_id", sha256_16(raw_id, SESSION_SECRET))
               ELSE ss
    IN  <<ss1, ss1["session_id"]>>

\* load_history(session_id)
load_history(fs, session_id, rio) ==
    IF Has(fs, session_id)
    THEN IF rio = "ok" /\ json_load(fs[session_id])[1] = "ok"
         THEN json_load(fs[session_id])[2]
         ELSE <<>>
    ELSE <<>>

\* a variant that writes the whole list
save_history_NoLimit(fs, session_id, history, wio) ==
    CASE wio = "ok" -> Put(fs, session_id, json_dump(history))
      [] wio = "write_failed" ->
            Put(fs, session_id, PartialText(json_dump(history)))
      [] OTHER -> fs

\* save_history(session_id, history): the directory afterwards
save_history(fs, session_id, history, wio) ==
    LET kept == IF Len(history) > HISTORY_LIMIT
                THEN PySliceLast(history, HISTORY_LIMIT)
                ELSE history
    IN  CASE wio = "ok" -> Put(fs, session_id, json_dump(kept))
          [] wio = "write_failed" ->
                Put(fs, session_id, PartialText(json_dump(kept)))
          [] OTHER -> fs

\* a variant that cuts the caller's list too
HistoryAfterSave_Cut(history) == PySliceLast(history, HISTORY_LIMIT)

\* the caller's list after save_history returns: line 138 rebinds the
\* parameter to a new list and leaves the list of the caller alone
HistoryAfterSave(history) == history

----------------------------------------------------------------------------
(* Completion client *)

MSG_TIMEOUT == Str(<<"T", "i", "m", "e", "o", "u", "t">>)
MSG_NO_CONNECTION == Str(<<"P", "a", "s", " ", "d", "e", " ", "c", "o">>)
MSG_ERROR == Str(<<"E", "r", "r", "e", "u", "r">>)
MSG_BAD_PASSWORD == Str(<<"M", "d", "p", " ", "i", "n", "c">>)
MSG_CONFIG == Str(<<"V", "a", "r", "s", " ", "m", "a", "n", "q">>)
EMPTY == Str(<<>>)

\* bodies of a response
BodyInvalid == <<"not json">>
BodyNoChoices == <<"{}">>
BodyEmptyChoices == <<"{choices: []}">>
BodyContent(c) == <<"{choices: [{message: {content}}]}", c>>

Resp(exc, status, body) == [exc |-> exc, status |-> status, body |-> body]
NoResponse == Resp("no request", 0, BodyInvalid)

\* the classes of an exception, most derived first
Classes(exc) ==
    CASE exc = "ConnectTimeout" ->
            {"ConnectTimeout", "ConnectionError", "Timeout", "Exception"}
      [] exc = "ReadTimeout" -> {"ReadTimeout", "Timeout", "Exception"}
      [] exc = "ConnectionError" -> {"ConnectionError", "Exception"}
      [] OTHER -> {exc, "Exception"}

\* response.raise_for_status()
raise_for_status(status) == status >= 400 /\ status < 600

\* the exception the try block of query_lm_studio raises, "none" if none
Raised(resp) ==
    IF resp.exc # "none" THEN resp.exc
    ELSE IF raise_for_status(resp.status) THEN "HTTPError"
    ELSE IF resp.body = BodyInvalid THEN "JSONDecodeError"
    ELSE IF resp.body = BodyNoChoices THEN "KeyError"
    ELSE IF resp.body = BodyEmptyChoices THEN "IndexError"
    ELSE "none"

\* a variant whose last handler returns no message
query_lm_studio_NoMsg(resp) ==
    LET e == Raised(resp)
    IN  IF e = "none" THEN <<resp.body[2], EMPTY>>
        ELSE IF "Timeout" \in Classes(e) THEN <<None, MSG_TIMEOUT>>
        ELSE IF "ConnectionError" \in Classes(e)
             THEN <<None, MSG_NO_CONNECTION>>
        ELSE <<None, EMPTY>>

\* query_lm_studio(messages): <<content, error message>>
query_lm_studio(resp) ==
    LET e == Raised(resp)
    IN  IF e = "none" THEN <<resp.body[2], EMPTY>>
        ELSE IF "Timeout" \in Classes(e) THEN <<None, MSG_TIMEOUT>>
        ELSE IF "ConnectionError" \in Classes(e)
             THEN <<None, MSG_NO_CONNECTION>>
        ELSE <<None, MSG_ERROR>>

----------------------------------------------------------------------------
(* What the environment can supply *)

SettingNames == {"LM_STUDIO_URL", "MODEL_NAME", "SESSION_SECRET",
                 "AUTH_PASSWORD"}
SettingValues == {None, EMPTY, Str(<<"x">>)}
PasswordSettings == {None, EMPTY, Str(<<"p", "w">>)}
Environments ==
    {e \in [SettingNames -> SettingValues \cup PasswordSettings] :
        /\ e["AUTH_PASSWORD"] \in PasswordSettings
        /\ \A n \in SettingNames \ {"AUTH_PASSWORD"} :
              e[n] \in SettingValues}

TypedPasswords ==
    {EMPTY, Str(<<"p">>), Str(<<"p", "w">>), Str(<<"p", "w", "d">>)}

NominalInput == Str(<<"B", "j">>)
NominalReply == Str(<<"S", "!">>)
ChatInputs ==
    {None, EMPTY, Str(<<" ", " ">>), NominalInput,
     Str(<<" ", "T", " ">>)}

NominalResponse == Resp("none", 200, BodyContent(NominalReply))
Responses ==
    {Resp("ReadTimeout", 0, BodyInvalid),
     Resp("ConnectTimeout", 0, BodyInvalid),
     Resp("ConnectionError", 0, BodyInvalid),
     Resp("InvalidSchema", 0, BodyInvalid),
     Resp("none", 500, BodyInvalid),
     Resp("none", 404, BodyContent(NominalReply)),
     Resp("none", 304, BodyInvalid),
     Resp("none", 200, BodyInvalid),
     Resp("none", 200, BodyNoChoices),
     Resp("none", 200, BodyEmptyChoices),
     Resp("none", 200, BodyContent(EMPTY)),
     Resp("none", 200, BodyContent(None)),
     NominalResponse}

----------------------------------------------------------------------------
(* The script *)

Authenticated(ss) == Has(ss, "authenticated") /\ ss["authenticated"]

\* a variant that accepts a beginning of the password
PasswordMatches_Prefix(pw, configured) ==
    /\ configured # None
    /\ Len(Chars(pw)) <= Len(Chars(configured))
    /\ Chars(pw) = SubSeq(Chars(configured), 1, Len(Chars(pw)))

\* password == AUTH_PASSWORD
PasswordMatches(pw, configured) == pw = configured

\* a variant that tests the input without strip()
InputAccepted_NoStrip(inp) == Truthy(inp)

\* user_input and user_input.strip()
InputAccepted(inp) == Truthy(inp) /\ Truthy(strip(inp))

\* a variant that keeps the system prompt in the history
AppendUser_WithSystem(history, inp) ==
    IF history = <<>>
    THEN <<Msg("system", SYSTEM_PROMPT), Msg("user", inp)>>
    ELSE Append(history, Msg("user", inp))

\* st.session_state.history.append({"role": "user", ...})
AppendUser(history, inp) == Append(history, Msg("user", inp))

\* [{"role": "system", "content": SYSTEM_PROMPT}] + st.session_state.history
BuildPayload(history) == <<Msg("system", SYSTEM_PROMPT)>> \o history

\* the session initialisation of an authenticated run
InitSession(ss, fs, raw_id, rio) ==
    IF ~Has(ss, "history")
    THEN LET r == get_session_id(ss, raw_id)
             h == load_history(fs, r[2], rio)
         IN  Put(Put(r[1], "history", h), "session_id", r[2])
    ELSE ss

Init ==
    /\ environ \in Environments
    /\ session_state = <<>>
    /\ files = <<>>
    /\ page = "none"
    /\ error_shown = None
    /\ password = EMPTY
    /\ user_input = None
    /\ response = NoResponse
    /\ messages_payload = <<>>
    /\ write_io = "none"
    /\ read_io = "none"
    /\ loaded = <<>>
    /\ step = "start"
    /\ turns = 0
    /\ tail = 0

\* a run with a setting missing: st.error, st.stop()
ConfigStop ==
    /\ ~ConfigOk
    /\ page' = "config_error"
    /\ error_shown' = MSG_CONFIG
    /\ step' = "config_stop"
    /\ UNCHANGED <<environ, session_state, files, password, user_input,
                   response, messages_payload, write_io, read_io, loaded,
                   turns, tail>>

\* a run before authentication in which the button is not pressed
ShowLogin(pw) ==
    /\ ConfigOk
    /\ ~Authenticated(session_state)
    /\ session_state' = IF ~Has(session_state, "authenticated")
                        THEN Put(session_state, "authenticated", FALSE)
                        ELSE session_state
    /\ page' = "login"
    /\ error_shown' = None
    /\ password' = pw
    /\ step' = "login_page"
    /\ UNCHANGED <<environ, files, user_input, response, messages_payload,
                   write_io, read_io, loaded, turns, tail>>

\* a run in which the button is pressed with pw in the password field
SubmitPassword(pw, raw_id, rio) ==
    /\ ConfigOk
    /\ page = "login"
    /\ ~Authenticated(session_state)
    /\ password' = pw
    /\ IF PasswordMatches(pw, AUTH_PASSWORD)
       THEN \* st.rerun(): the next run takes the authenticated branch
            LET ss1 == Put(session_state, "authenticated", TRUE)
                ss2 == InitSession(ss1, files, raw_id, rio)
            IN  /\ session_state' = ss2
                /\ loaded' = ss2["history"]
                /\ read_io' = IF Has(files, ss2["session_id"])
                              THEN rio ELSE "none"
                /\ page' = "chat"
                /\ error_shown' = None
                /\ step' = "login_ok"
       ELSE /\ error_shown' = MSG_BAD_PASSWORD
            /\ page' = "login"
            /\ step' = "login_failed"
            /\ UNCHANGED <<session_state, loaded, read_io>>
    /\ UNCHANGED <<environ, files, user_input, response, messages_payload,
                   write_io, turns, tail>>

\* the exchange the model repeats to make a transcript grow
IsNominal(inp, resp, wio) ==
    inp = NominalInput /\ resp = NominalResponse /\ wio = "ok"

\* the turns counted from the first one that is not nominal
TailAfter(n, inp, resp, wio) ==
    IF n = 0 /\ IsNominal(inp, resp, wio) THEN 0 ELSE n + 1

\* an input with what the endpoint and the disk do during the run: no
\* request without an accepted input, no write without a reply
ChatChoices ==
    {c \in ChatInputs \X (Responses \cup {NoResponse})
                      \X (WriteOutcomes \cup {"none"}) :
        /\ InputAccepted(c[1]) = (c[2] # NoResponse)
        /\ (c[3] # "none") =
              (InputAccepted(c[1]) /\ ~Truthy(query_lm_studio(c[2])[2]))}

\* an authenticated run with inp in the chat input
ChatRun(inp, resp, wio) ==
    /\ ConfigOk
    /\ page = "chat"
    /\ Authenticated(session_state)
    /\ Has(session_state, "history")
    /\ InputAccepted(inp) =>
          /\ turns < MaxTurns
          /\ TailAfter(tail, inp, resp, wio) <= MaxTail
    /\ user_input' = inp
    /\ step' = "chat"
    /\ page' = "chat"
    /\ IF InputAccepted(inp)
       THEN LET session_id == session_state["session_id"]
                h1 == AppendUser(session_state["history"], inp)
                payload == BuildPayload(h1)
                result == query_lm_studio(resp)
                ai_response == result[1]
                error_msg == result[2]
            IN  /\ turns' = turns + 1
                /\ tail' = TailAfter(tail, inp, resp, wio)
                /\ messages_payload' = payload
                /\ response' = resp
                /\ IF Truthy(error_msg)
                   THEN /\ error_shown' = error_msg
                        /\ session_state' = Put(session_state, "history", h1)
                        /\ write_io' = wio
                        /\ UNCHANGED files
                   ELSE LET h2 == Append(h1, Msg("assistant", ai_response))
                        IN  /\ files' = save_history(files, session_id, h2,
                                                     wio)
                            /\ write_io' = wio
                            /\ session_state' =
                                  Put(session_state, "history",
                                      HistoryAfterSave(h2))
                            \* st.rerun(): a run that only renders
                            /\ error_shown' = None
       ELSE /\ error_shown' = None
            /\ response' = resp
            /\ write_io' = wio
            /\ UNCHANGED <<session_state, files, messages_payload, turns,
                           tail>>
    /\ UNCHANGED <<environ, password, read_io, loaded>>

Next ==
    \/ ConfigStop
    \/ \E pw \in TypedPasswords : ShowLogin(pw)
    \/ \E pw \in TypedPasswords, raw_id \in RawIds, rio \in ReadOutcomes :
          SubmitPassword(pw, raw_id, rio)
    \/ \E c \in ChatChoices : ChatRun(c[1], c[2], c[3])

Spec == Init /\ [][Next]_vars

----------------------------------------------------------------------------
(* Reset, as the specification of the controller describes it: chatbot.py    *)
(* has no such control                                                      *)

\* a variant that clears the list and leaves the file
Reset_NoPersist ==
    /\ ConfigOk
    /\ page = "chat"
    /\ Authenticated(session_state)
    /\ Has(session_state, "history")
    /\ session_state' = Put(session_state, "history", <<>>)
    /\ write_io' = "none"
    /\ step' = "reset"
    /\ error_shown' = None
    /\ user_input' = None
    /\ response' = NoResponse
    /\ turns' = 0
    /\ tail' = 0
    /\ UNCHANGED <<environ, files, page, password, messages_payload, read_io,
                   loaded>>

\* clear the transcript in memory and store an empty one under the same id
Reset ==
    /\ ConfigOk
    /\ page = "chat"
    /\ Authenticated(session_state)
    /\ Has(session_state, "history")
    /\ session_state' = Put(session_state, "history", <<>>)
    /\ files' = save_history(files, session_state["session_id"], <<>>, "ok")
    /\ write_io' = "ok"
    /\ step' = "reset"
    /\ error_shown' = None
    /\ user_input' = None
    /\ response' = NoResponse
    /\ turns' = 0
    /\ tail' = 0
    /\ UNCHANGED <<environ, page, password, messages_payload, read_io,
                   loaded>>

NextReset == Next \/ Reset

SpecReset == Init /\ [][NextReset]_vars

----------------------------------------------------------------------------
(* The transcript store on its own: save_history then load_history on      *)
(* transcripts of every length up to MaxLen                                 *)

Digit(k) == <<"0", "1", "2", "3", "4", "5", "6", "7", "8", "9">>[k + 1]

\* message i of the transcript of shape p; its text is its position
GenMsg(i, p) ==
    LET text == Str(<<Digit(i \div 10), Digit(i % 10)>>)
    IN  CASE p = 1 -> Msg(IF i % 2 = 1 THEN "user" ELSE "assistant", text)
          [] p = 2 -> Msg("user", text)
          [] OTHER -> Msg(IF i = 1 THEN "system" ELSE "assistant",
                          IF i % 3 = 0 THEN None ELSE text)

Gen(n, p) == [i \in 1..n |-> GenMsg(i, p)]

Transcripts == {Gen(n, p) : n \in 0..MaxLen, p \in 1..3}

StoreEnviron == [n \in SettingNames |->
                    IF n = "AUTH_PASSWORD" THEN Str(<<"p", "w">>)
                    ELSE Str(<<"x">>)]
StoreIds == {sha256_16(raw_id, Str(<<"x">>)) : raw_id \in RawIds}

StoreInit ==
    /\ environ = StoreEnviron
    /\ \E T \in Transcripts, id \in StoreIds :
          /\ session_state = Put(Put(Put(<<>>, "authenticated", TRUE),
                                     "session_id", id), "history", T)
          /\ files \in {<<>>, Put(<<>>, id, json_dump(Gen(3, 1)))}
    /\ page = "chat"
    /\ error_shown = None
    /\ password = EMPTY
    /\ user_input = None
    /\ response = NoResponse
    /\ messages_payload = <<>>
    /\ write_io = "none"
    /\ read_io = "none"
    /\ loaded = <<>>
    /\ step = "store_start"
    /\ turns = 0
    /\ tail = 0

StoreSave(wio) ==
    /\ step = "store_start"
    /\ files' = save_history(files, session_state["session_id"],
                             session_state["history"], wio)
    /\ write_io' = wio
    /\ step' = "saved"
    /\ UNCHANGED <<environ, session_state, page, error_shown, password,
                   user_input, response, messages_payload, read_io, loaded,
                   turns, tail>>

StoreLoad(rio) ==
    /\ step = "saved"
    /\ loaded' = load_history(files, session_state["session_id"], rio)
    /\ read_io' = IF Has(files, session_state["session_id"])
                  THEN rio ELSE "none"
    /\ step' = "loaded"
    /\ UNCHANGED <<environ, session_state, files, page, error_shown,
                   password, user_input, response, messages_payload,
                   write_io, turns, tail>>

StoreNext ==
    \/ \E wio \in WriteOutcomes : StoreSave(wio)
    \/ \E rio \in ReadOutcomes : StoreLoad(rio)

StoreSpec == StoreInit /\ [][StoreNext]_vars

----------------------------------------------------------------------------
(* Vocabulary of the properties *)

History == session_state["history"]
SessionId == session_state["session_id"]

\* the transcript a history file holds, <<>> if the text is not a list
Persisted(fs, id) ==
    IF json_load(fs[id])[1] = "ok" THEN json_load(fs[id])[2] ELSE <<>>

IsPrefix(a, b) ==
    Len(a) <= Len(b) /\ \A i \in 1..Len(a) : a[i] = b[i]

\* the most recent 50 entries of a transcript, all of them if it is shorter
Recent50(h) ==
    [i \in 1..(IF Len(h) > 50 THEN 50 ELSE Len(h)) |->
        h[i + (IF Len(h) > 50 THEN Len(h) - 50 ELSE 0)]]

Blank(inp) ==
    inp = None \/ \A i \in 1..Len(Chars(inp)) : IsSpace(Chars(inp)[i])

\* the run that led to the next state sent a request
TurnTaken == step' = "chat" /\ ~Blank(user_input') /\ response' # NoResponse

\* timeout, connection failure, any other exception of the call, a status
\* outside 2xx, a body that is not JSON or lacks the completion field
CallFailed(resp) ==
    \/ resp.exc # "none"
    \/ resp.status < 200 \/ resp.status > 299
    \/ resp.body \in {BodyInvalid, BodyNoChoices, BodyEmptyChoices}

SettingMissing(n) == environ[n] = None \/ environ[n] = EMPTY
RequiredSettings == {"LM_STUDIO_URL", "MODEL_NAME", "SESSION_SECRET"}

\* nothing of a session exists: no prompt answered, no id, no request
NoInteraction ==
    /\ session_state = <<>>
    /\ files = <<>>
    /\ messages_payload = <<>>
    /\ page \in {"none", "config_error"}
    /\ step \in {"start", "config_stop"}

----------------------------------------------------------------------------
C2_SuccessfulTurnPersists ==
    [][(TurnTaken /\ ~CallFailed(response')) =>
          LET h2 == History \o <<Msg("user", user_input'),
                                 Msg("assistant", response'.body[2])>>
          IN  /\ session_state'["history"] = h2
              /\ write_io' = "ok" =>
                    /\ Has(files', SessionId)
                    /\ Persisted(files', SessionId) = Recent50(h2)
                    /\ json_load(files'[SessionId])[1] = "ok"]_vars

C2_Witness ==
    /\ step = "chat"
    /\ response = NominalResponse
    /\ write_io = "ok"
    /\ Len(History) > 50
    /\ Len(Persisted(files, SessionId)) = 50
    /\ Persisted(files, SessionId)[50] = History[Len(History)]

(* C3: save(id, T) followed by load(id), neither failing, returns T when T  *)
(* has at most 50 entries and the last 50 entries of T in their order when  *)
(* it has more; after a save that did not fail the file holds at most 50    *)
(* entries.                                                                 *)
C3_SaveLoadRoundTrip ==
    /\ (step = "loaded" /\ write_io = "ok" /\ read_io = "ok") =>
          /\ Len(History) <= 50 => loaded = History
          /\ Len(History) > 50 =>
                /\ Len(loaded) = 50
                /\ \A i \in 1..50 : loaded[i] = History[Len(History) - 50 + i]
    /\ (step \in {"saved", "loaded"} /\ write_io = "ok") =>
          /\ json_load(files[SessionId])[1] = "ok"
          /\ Len(Persisted(files, SessionId)) <= 50

C3_Witness ==
    /\ step = "loaded"
    /\ write_io = "ok"
    /\ read_io = "ok"
    /\ Len(History) > 50
    /\ Len(loaded) = 50
    /\ loaded[1] = History[Len(History) - 49]

(* C4: a response that parses and whose completion text is empty is a      *)
(* failure: an error is shown, no assistant message with empty content is   *)
(* in the transcript in memory, and nothing is written for that turn.       *)
C4_EmptyCompletionIsFailure ==
    /\ (step = "chat" /\ response = Resp("none", 200, BodyContent(EMPTY))) =>
          /\ Truthy(error_shown)
          /\ write_io = "none"
    /\ Has(session_state, "history") =>
          \A i \in 1..Len(History) :
              History[i] # Msg("assistant", EMPTY)

(* C5: the session becomes authenticated only in a run whose submitted      *)
(* password equals the configured one, so wrong passwords leave it          *)
(* unauthenticated; while it is unauthenticated there is no session id, no  *)
(* transcript has been loaded and no request has been sent.                 *)
C5_GateInvariant ==
    ~Authenticated(session_state) =>
        /\ ~Has(session_state, "session_id")
        /\ ~Has(session_state, "history")
        /\ loaded = <<>> /\ read_io = "none"
        /\ messages_payload = <<>>
        /\ files = <<>>

\* C5: the gate invariant in every state, and authentication only by a run
\* that submitted the configured password
C5_PasswordGate ==
    /\ []C5_GateInvariant
    /\ [][(~Authenticated(session_state) /\ Authenticated(session_state')) =>
             (step' = "login_ok" /\ password' = environ["AUTH_PASSWORD"])]_vars

C5_Witness ==
    /\ step = "login_failed"
    /\ password = Str(<<"p">>)
    /\ environ["AUTH_PASSWORD"] = Str(<<"p", "w">>)
    /\ ~Authenticated(session_state)
    /\ ~Has(session_state, "session_id")

(* C6: no entry with role system is in the transcript in memory or in a     *)
(* history file; every request is the system prompt followed by the whole   *)
(* transcript in memory, the prompt being its only system entry.            *)
C6_NoSystemStored ==
    /\ Has(session_state, "history") =>
          \A i \in 1..Len(History) : History[i].role # "system"
    /\ \A id \in DOMAIN files : \A i \in 1..Len(files[id]) :
          Len(files[id][i]) = 3 => files[id][i][2] # "system"
    /\ messages_payload # <<>> =>
          /\ messages_payload[1] = Msg("system", SYSTEM_PROMPT)
          /\ \A i \in 2..Len(messages_payload) :
                messages_payload[i].role # "system"

\* C6: no system entry is stored, and every request is the prompt followed
\* by the transcript in memory
C6_SystemPromptOnlyOutbound ==
    /\ []C6_NoSystemStored
    /\ [][TurnTaken =>
             messages_payload' =
                <<Msg("system", SYSTEM_PROMPT)>>
                   \o Append(History, Msg("user", user_input'))]_vars

C6_Witness ==
    /\ step = "chat"
    /\ Len(messages_payload) > 3
    /\ Has(files, SessionId)
    /\ Len(Persisted(files, SessionId)) > 1
    /\ Len(History) = Len(messages_payload)

C8_PasswordOptional ==
    /\ (\E n \in RequiredSettings : SettingMissing(n)) => NoInteraction
    /\ ((\A n \in RequiredSettings : ~SettingMissing(n))
           /\ SettingMissing("AUTH_PASSWORD")) => page # "config_error"

(* C8 amended: when any of the four settings, the password included, is     *)
(* missing or empty, every run halts at the configuration check before any  *)
(* interaction; a run halts there in no other case.                         *)
C8_AnyMissingSettingHalts ==
    /\ (\E n \in SettingNames : SettingMissing(n)) => NoInteraction
    /\ page = "config_error" => \E n \in SettingNames : SettingMissing(n)

C8_Witness ==
    /\ page = "config_error"
    /\ \A n \in RequiredSettings : ~SettingMissing(n)
    /\ SettingMissing("AUTH_PASSWORD")
    /\ error_shown = MSG_CONFIG

(* C9: a run whose input is empty or only whitespace changes neither the    *)
(* transcript in memory, the history files nor the session id, and sends    *)
(* no request.                                                              *)
C9_BlankInputIgnored ==
    [][(step' = "chat" /\ Blank(user_input')) =>
          /\ session_state' = session_state
          /\ files' = files
          /\ messages_payload' = messages_payload
          /\ response' = NoResponse
          /\ turns' = turns]_vars

C9_Witness ==
    /\ step = "chat"
    /\ user_input = Str(<<" ", " ">>)
    /\ Len(History) > 0
    /\ Has(files, SessionId)

(* C10: the transcript in memory only grows, also past 50 entries when the  *)
(* written copy is cut to 50; every request carries every message of the    *)
(* session after the system prompt; every assistant entry directly follows  *)
(* a user entry.                                                            *)
C10_AssistantFollowsUser ==
    Has(session_state, "history") =>
        \A i \in 1..Len(History) :
            History[i].role = "assistant" =>
                i > 1 /\ History[i - 1].role = "user"

\* C10: the transcript in memory is a prefix of its next value, requests
\* carry all of it, assistant entries follow user entries
C10_MemoryNeverShortened ==
    /\ []C10_AssistantFollowsUser
    /\ [][Has(session_state, "history") =>
             /\ Has(session_state', "history")
             /\ IsPrefix(History, session_state'["history"])]_vars
    /\ [][TurnTaken =>
             /\ Len(messages_payload') = Len(History) + 2
             /\ \A i \in 1..Len(History) :
                   messages_payload'[i + 1] = History[i]]_vars

C10_Witness ==
    /\ step = "chat"
    /\ Len(History) > 50
    /\ Len(messages_payload) > 51
    /\ Len(Persisted(files, SessionId)) = 50
    /\ History[1] = Msg("user", NominalInput)

====
